---- MODULE Spec2Model ----
(***************************************************************************)
(* A model of the session protocol engine of the VPN: the server's receive *)
(* loop, its per-datagram handler tasks, the liveness sweeper and the      *)
(* session table (vpn-server), and the client's handshake (vpn-client).    *)
(*                                                                         *)
(* Every DashMap operation and every socket send is one atomic step of the *)
(* task that performs it; the steps of different tasks interleave freely,  *)
(* as tokio's multi-threaded runtime allows.                               *)
(*                                                                         *)
(* Time is discrete. An Instant is held as its distance from now, in       *)
(* ticks: Instant::now() is 0, a tick makes every stored instant one older *)
(* (up to AgeCap, past which no comparison of the code tells two apart).   *)
(***************************************************************************)
EXTENDS Integers, Sequences, FiniteSets, Bags, TLC

\* ------------------------------------------------------------------ bounds
\* Keys are KeyBits-bit integers standing for the 32-byte keys of the code.
KeyBits == 1
\* Datagrams the server's receive loop takes from its socket in one run.
MaxDatagrams == 2
\* Copies of a client datagram the network may deliver on top of the original.
MaxDup == 1
\* Pings the client's ping task sends in one run.
MaxPings == 2
\* Frames the client reads from its TUN device in one run.
MaxFrames == 1

\* ------------------------------------------------------------ data model
RECURSIVE Pow2(_)
Pow2(n) == IF n = 0 THEN 1 ELSE 2 * Pow2(n - 1)

Key == 0 .. (Pow2(KeyBits) - 1)

\* [0u8; KEY_SIZE], the bootstrap key.
ZeroKey == 0

\* a[i] ^ b[i] for every position i of the two keys.
RECURSIVE XorBits(_, _, _)
XorBits(a, b, n) ==
  IF n = 0 THEN 0
  ELSE (((a % 2) + (b % 2)) % 2) + (2 * XorBits(a \div 2, b \div 2, n - 1))

Xor(a, b) == XorBits(a, b, KeyBits)

\* Source addresses. ClientAddr is the address the modelled client is bound to.
ClientAddr == "c1"
PeerAddr == "p2"
Addr == {ClientAddr, PeerAddr}

\* Credentials::Password(Password { username, password }).
Password(u, p) == [username |-> u, password |-> p]
NoCred == Password("", "")
GoodCred == Password("test_user", "correct_pass")
BadCred == Password("test_user", "wrong_pass")
Credentials == {GoodCred, BadCred}

\* ClientPacket and ServerPacket values: one record shape for all variants.
Pkt(t, c, k) == [type |-> t, cred |-> c, key |-> k]
Auth(c) == Pkt("Auth", c, ZeroKey)
Data == Pkt("Data", NoCred, ZeroKey)
Ping == Pkt("Ping", NoCred, ZeroKey)
Disconnect == Pkt("Disconnect", NoCred, ZeroKey)
KeyExchange(k) == Pkt("KeyExchange", NoCred, k)
\* Bytes that pass the AEAD check and are no ClientPacket.
Junk == Pkt("Junk", NoCred, ZeroKey)
NoPkt == Pkt("None", NoCred, ZeroKey)

ClientPacket ==
  {Auth(c) : c \in Credentials} \cup {Data, Ping, Disconnect}
    \cup {KeyExchange(k) : k \in Key}

\* ServerPacket: msg is the text of AuthError / Disconnect.reason.
SPkt(t, m, k) == [type |-> t, msg |-> m, key |-> k]
AuthOk == SPkt("AuthOk", "", ZeroKey)
AuthError(m) == SPkt("AuthError", m, ZeroKey)
Pong == SPkt("Pong", "", ZeroKey)
SDisconnect(m) == SPkt("Disconnect", m, ZeroKey)
SKeyExchange(k) == SPkt("KeyExchange", "", k)
SData == SPkt("Data", "", ZeroKey)

\* The variants of ClientPacket and of ServerPacket, in declaration order.
ClientPacketDecl == <<"Auth", "Data", "Ping", "Disconnect">>
ServerPacketDecl == <<"AuthOk", "AuthError", "Data", "Error", "Pong", "Disconnect">>

\* The same with the KeyExchange variant that the handlers and the client
\* use, as the last variant of each enum.
ClientPacketVariants == Append(ClientPacketDecl, "KeyExchange")
ServerPacketVariants == Append(ServerPacketDecl, "KeyExchange")

\* A variant_index that counts from one.
variant_index_from_one(decl, type) ==
  IF \E i \in 1 .. Len(decl) : decl[i] = type
    THEN CHOOSE i \in 1 .. Len(decl) : decl[i] = type
    ELSE Len(decl) + 1

\* The tag bincode::serialize writes for a variant: its index in the
\* declaration, from zero.  Bytes that are no variant get a tag past the end.
variant_index(decl, type) ==
  IF \E i \in 1 .. Len(decl) : decl[i] = type
    THEN (CHOOSE i \in 1 .. Len(decl) : decl[i] = type) - 1
    ELSE Len(decl)

\* bincode::deserialize: the variant a tag selects, and the packet read from
\* a tag and a body.
variant_at(decl, tag) == IF tag < Len(decl) THEN decl[tag + 1] ELSE "Junk"
deserialize(decl, tag, body) == [body EXCEPT !.type = variant_at(decl, tag)]

\* A datagram on the wire: short marks one of fewer than NONCE_SIZE + TAG_SIZE
\* bytes; otherwise key is the key it was sealed with, tag the variant tag of
\* its plaintext and pkt the packet that was serialized.
Datagram(a, sh, k, p) ==
  [src |-> a, short |-> sh, key |-> k,
   tag |-> variant_index(ClientPacketVariants, p.type), pkt |-> p]

\* EncryptedPacket::encrypt(key, packet) sent from / to an address.
Encrypt(a, k, p) == Datagram(a, FALSE, k, p)

\* EncryptedPacket::from_bytes: fails on a datagram shorter than 28 bytes.
FromBytesOk(d) == ~d.short

\* EncryptedPacket::decrypt: the AEAD tag verifies only under the sealing key,
\* and the plaintext must deserialize; the error it returns otherwise.
DecryptErr(d, k) ==
  IF d.key # k THEN "Decryption failed"
  ELSE IF deserialize(ClientPacketVariants, d.tag, d.pkt) \notin ClientPacket
    THEN "Deserialization failed"
  ELSE ""

DecryptOk(d, k) == DecryptErr(d, k) = ""

\* ------------------------------------------------------------- the state
VARIABLES
  max_clients,   \* Server.max_clients
  tun,           \* the frames the server wrote to its TUN device, in order
  clients,       \* Server.clients: the session table, a map Addr -> ConnectedClient
  running,       \* whether Server::run's receive loop is still looping
  nrecv,         \* datagrams recv_from has returned so far
  tasks,         \* the handler tasks spawned by the receive loop and not finished
  sent,          \* per destination address, the datagrams the server sent, in order
  swPc,          \* the sweeper task's position
  swTodo,        \* clients_to_remove, what is left of it
  swAddr,        \* the address the sweeper's loop body is at
  swEvicted,     \* what clients.remove(&addr) returned to the sweeper (dropped by the code)
  swWake,        \* the instant the sweeper's sleep ends
  rx,            \* history: how the receive loop's last turn ended (what it logged)
  lastHandled,   \* history: per address, the instant a handler of its datagrams last ran
  swIdle,        \* history: the addresses no handler has run for since before
                 \*          the sweeper's last scan, and for more than client_timeout then
  \* ---- the client at ClientAddr (vpn-client, Client::run / Client::connect)
  cpc,           \* the client's position: "off" when no client is modelled
  credentials,   \* Client.credentials
  session_key,   \* connect's local session_key
  cerr,          \* the error Client::run returned, NoError while it has returned none
  crd,           \* how many of the datagrams sent to ClientAddr the client has read
  wire,          \* the client's datagrams on their way to the server, a bag
  ndup,          \* datagrams the network has duplicated so far
  \* ---- the client's tasks after the handshake (Client::run, start_ping)
  network,       \* the channel network_tx -> network_rx: the packets in it, in order
  ping_sent,     \* the channel of start_ping: how many () it holds (capacity 1)
  ppc,           \* the ping task's position
  npings,        \* the Pings the ping task has sent so far
  pongs,         \* the Pongs the main loop has matched so far
  nframes,       \* the frames serve_tun has read from the client's TUN so far
  last_ping_sent, \* Client.last_ping_sent: the Ping its instant was taken for,
                 \*                         0 for the instant of build
  tun_written,   \* the frames the client has written to its TUN so far
  ctimer,        \* what is left of the tokio timeout around connect's recv_from
  cwaited        \* history: how long connect's current recv_from has been waiting

srvVars == <<max_clients, tun, clients, running, nrecv, tasks, sent,
             swPc, swTodo, swAddr, swEvicted, swWake, rx, lastHandled, swIdle>>

runVars == <<network, ping_sent, ppc, npings, pongs, nframes, last_ping_sent,
             tun_written>>

timerVars == <<ctimer, cwaited>>

cliVars == <<cpc, credentials, session_key, cerr, crd, ndup, runVars, timerVars>>

\* Server.client_timeout, in ticks (one tick is 15 s of the default 30 s).
client_timeout == 2

\* cleanup_interval = client_timeout / 2.
cleanup_interval == client_timeout \div 2

\* Instant::now(), and an instant one tick later.
Now == 0
AgeCap == client_timeout + 1
Older(i) == IF i < AgeCap THEN i + 1 ELSE i

\* Server.client_credentials.
client_credentials == {GoodCred}

\* with_max_clients(n): the values of max_clients a run is started with.
MaxClientsChoices == {1, 2}

\* A ConnectedClient::new that stores one fixed address, not the sender's.
ConnectedClient_fixed_addr(k, a, t, seen) ==
  [addr |-> PeerAddr, last_seen |-> seen, timeout |-> t, key |-> k]

\* ConnectedClient { addr, last_seen, timeout, key }.
ConnectedClient(k, a, t, seen) ==
  [addr |-> a, last_seen |-> seen, timeout |-> t, key |-> k]

\* is_expired with the comparison off by one tick.
is_expired_late(c) == c.last_seen - Now > c.timeout + 1

\* ConnectedClient::is_expired: now.duration_since(last_seen) > timeout.
is_expired(c) == c.last_seen - Now > c.timeout

\* DashMap::insert / remove / contains_key / len.
Insert(m, a, c) == [x \in (DOMAIN m) \cup {a} |-> IF x = a THEN c ELSE m[x]]
Remove(m, a) == [x \in (DOMAIN m) \ {a} |-> m[x]]
ContainsKey(m, a) == a \in DOMAIN m
MapLen(m) == Cardinality(DOMAIN m)

\* get_client_key that never looks the session up.
get_client_key_bootstrap(m, a) == ZeroKey

\* Server::get_client_key, and the same lookup in Server::run.
get_client_key(m, a) == IF ContainsKey(m, a) THEN m[a].key ELSE ZeroKey

\* A spawned handler task: id is the datagram's place in the receive order,
\* server_key / session_key are handle_key_exchange's locals, born is the
\* last_seen of the ConnectedClient it has built and not yet inserted.
Task(i, a, p) ==
  [id |-> i, addr |-> a, pkt |-> p, pc |-> "start",
   server_key |-> ZeroKey, session_key |-> ZeroKey, born |-> Now]

At(t, pc) == [t EXCEPT !.pc = pc]
Step(t, u) == tasks' = (tasks \ {t}) \cup {u}
Finish(t) == tasks' = tasks \ {t}

\* socket.send_to(encrypt(key, packet), addr): the datagram joins what was sent
\* to addr.
SendTo(s, a, k, p) ==
  [s EXCEPT ![a] = Append(@, [key |-> k, pkt |-> p,
                              tag |-> variant_index(ServerPacketVariants, p.type)])]

\* A send_packet that seals with the all-zero key whatever the session.
send_packet_bootstrap(p, a) == sent' = SendTo(sent, a, ZeroKey, p)

\* PacketHandler::send_packet: sealed with the key the table holds for addr now.
send_packet(p, a) == sent' = SendTo(sent, a, get_client_key(clients, a), p)

\* PacketHandler::send_unencrypted_packet: sealed with the bootstrap key.
send_unencrypted_packet(p, a) == sent' = SendTo(sent, a, ZeroKey, p)

\* ------------------------------------------------- Server::run, the loop
\* One turn of the receive loop on datagram d: from_bytes (an error leaves run
\* through `?`), the key lookup, decrypt, and the spawn of the handler task.
Recv(d) ==
  /\ running
  /\ nrecv' = nrecv + 1
  /\ IF ~FromBytesOk(d)
       THEN running' = FALSE /\ rx' = "malformed" /\ UNCHANGED tasks
       ELSE /\ UNCHANGED running
            /\ IF DecryptOk(d, get_client_key(clients, d.src))
                 THEN /\ tasks' = tasks \cup {Task(nrecv + 1, d.src,
                                               deserialize(ClientPacketVariants,
                                                           d.tag, d.pkt))}
                      /\ rx' = "spawned"
                 ELSE /\ rx' = DecryptErr(d, get_client_key(clients, d.src))
                      /\ UNCHANGED tasks
  /\ UNCHANGED <<max_clients, tun, clients, sent, swPc, swTodo, swAddr, swEvicted,
                 swWake, lastHandled, swIdle>>

\* ------------------------------------------------------- handler tasks
\* What every step of handler task t leaves alone; the step is noted in lastHandled.
swUnch(t) ==
  /\ lastHandled' = [lastHandled EXCEPT ![t.addr] = Now]
  /\ swIdle' = swIdle \ {t.addr}
  /\ UNCHANGED <<max_clients, tun, running, nrecv, swPc, swTodo, swAddr, swEvicted,
                 swWake, rx>>
  /\ UNCHANGED <<cliVars, wire>>

\* handle_auth, to its first await: a credential that is not accepted is
\* answered AuthError; otherwise clients.len() is read.
handle_auth(t) ==
  /\ t.pc = "start" /\ t.pkt.type = "Auth"
  /\ IF t.pkt.cred \notin client_credentials
       THEN /\ send_packet(AuthError("Invalid credentials"), t.addr)
            /\ Finish(t)
       ELSE /\ Step(t, At(t, IF MapLen(clients) >= max_clients
                               THEN "auth_full" ELSE "auth_ok"))
            /\ UNCHANGED sent
  /\ UNCHANGED clients
  /\ swUnch(t)

\* handle_auth, table full: clients.remove(&src_addr).
handle_auth_full_remove(t) ==
  /\ t.pc = "auth_full"
  /\ clients' = Remove(clients, t.addr)
  /\ Step(t, At(t, "auth_full_send"))
  /\ UNCHANGED sent
  /\ swUnch(t)

\* handle_auth, table full: send_packet(AuthError("Server is full")).
handle_auth_full_send(t) ==
  /\ t.pc = "auth_full_send"
  /\ send_packet(AuthError("Server is full"), t.addr)
  /\ Finish(t)
  /\ UNCHANGED clients
  /\ swUnch(t)

\* handle_auth, accepted: send_packet(AuthOk).
handle_auth_ok(t) ==
  /\ t.pc = "auth_ok"
  /\ send_packet(AuthOk, t.addr)
  /\ Finish(t)
  /\ UNCHANGED clients
  /\ swUnch(t)

\* Server::assert_auth, the contains_key test, as handle_data and handle_ping
\* call it first.
assert_auth(t) ==
  /\ t.pc = "start" /\ t.pkt.type \in {"Data", "Ping"}
  /\ Step(t, At(t, IF ContainsKey(clients, t.addr) THEN "aa_get_mut" ELSE "aa_bail"))
  /\ UNCHANGED <<clients, sent>>
  /\ swUnch(t)

\* Server::assert_auth, no session: AuthError is sent and the handler bails.
assert_auth_bail(t) ==
  /\ t.pc = "aa_bail"
  /\ send_packet(AuthError("Invalid credentials"), t.addr)
  /\ Finish(t)
  /\ UNCHANGED clients
  /\ swUnch(t)

\* Server::assert_auth, clients.get_mut(&src_addr).unwrap(): last_seen is
\* refreshed; on a session removed since contains_key the task panics and ends.
assert_auth_get_mut(t) ==
  /\ t.pc = "aa_get_mut"
  /\ IF ContainsKey(clients, t.addr)
       THEN /\ clients' = [clients EXCEPT ![t.addr].last_seen = Now]
            /\ Step(t, At(t, IF t.pkt.type = "Data" THEN "data_get_mut" ELSE "ping_send"))
       ELSE /\ Finish(t)
            /\ UNCHANGED clients
  /\ UNCHANGED sent
  /\ swUnch(t)

\* handle_data after assert_auth: if let Some(client) = get_mut, refresh last_seen.
handle_data(t) ==
  /\ t.pc = "data_get_mut"
  /\ clients' = IF ContainsKey(clients, t.addr)
                  THEN [clients EXCEPT ![t.addr].last_seen = Now]
                  ELSE clients
  /\ Finish(t)
  /\ UNCHANGED sent
  /\ swUnch(t)

\* A handle_ping that refreshes the session and answers nothing.
handle_ping_silent(t) ==
  /\ t.pc = "ping_send"
  /\ Finish(t)
  /\ UNCHANGED <<clients, sent>>
  /\ swUnch(t)

\* handle_ping after assert_auth: send_packet(Pong).
handle_ping(t) ==
  /\ t.pc = "ping_send"
  /\ send_packet(Pong, t.addr)
  /\ Finish(t)
  /\ UNCHANGED clients
  /\ swUnch(t)

\* A handle_disconnect that answers a Disconnect from an address without a
\* session the way assert_auth does.
handle_disconnect_strict(t) ==
  /\ t.pc = "start" /\ t.pkt.type = "Disconnect"
  /\ IF ContainsKey(clients, t.addr)
       THEN /\ clients' = Remove(clients, t.addr)
            /\ UNCHANGED sent
       ELSE /\ send_packet(AuthError("Invalid credentials"), t.addr)
            /\ UNCHANGED clients
  /\ Finish(t)
  /\ swUnch(t)

\* handle_disconnect: clients.remove(&src_addr), present or not.
handle_disconnect(t) ==
  /\ t.pc = "start" /\ t.pkt.type = "Disconnect"
  /\ clients' = Remove(clients, t.addr)
  /\ Finish(t)
  /\ UNCHANGED sent
  /\ swUnch(t)

\* A derivation that leaves the client's random out.
derive_server_key_only(client_key, server_key) == server_key

\* The session key handle_key_exchange derives from the two randoms.
derive_session_key(client_key, server_key) == Xor(client_key, server_key)

\* handle_key_exchange: draw server_key, derive session_key and build the
\* ConnectedClient, whose last_seen is Instant::now() of this step.
handle_key_exchange(t) ==
  /\ t.pc = "start" /\ t.pkt.type = "KeyExchange"
  /\ \E s \in Key :
       Step(t, [t EXCEPT !.pc = "ke_insert", !.server_key = s,
                         !.session_key = derive_session_key(t.pkt.key, s),
                         !.born = Now])
  /\ UNCHANGED <<clients, sent>>
  /\ swUnch(t)

\* handle_key_exchange: clients.insert the ConnectedClient built before,
\* whatever the table holds for the address.
handle_key_exchange_insert(t) ==
  /\ t.pc = "ke_insert"
  /\ clients' = Insert(clients, t.addr,
                       ConnectedClient(t.session_key, t.addr, client_timeout,
                                       t.born))
  /\ Step(t, [t EXCEPT !.pc = "ke_get_mut", !.born = Now])
  /\ UNCHANGED sent
  /\ swUnch(t)

\* handle_key_exchange: if let Some(client) = get_mut, set key and last_seen.
handle_key_exchange_get_mut(t) ==
  /\ t.pc = "ke_get_mut"
  /\ clients' = IF ContainsKey(clients, t.addr)
                  THEN [clients EXCEPT ![t.addr].key = t.session_key,
                                       ![t.addr].last_seen = Now]
                  ELSE clients
  /\ Step(t, At(t, "ke_send"))
  /\ UNCHANGED sent
  /\ swUnch(t)

\* handle_key_exchange: send_unencrypted_packet(KeyExchange(server_key)).
handle_key_exchange_send(t) ==
  /\ t.pc = "ke_send"
  /\ send_unencrypted_packet(SKeyExchange(t.server_key), t.addr)
  /\ Finish(t)
  /\ UNCHANGED clients
  /\ swUnch(t)

\* One step of a spawned handler task (Server::handle dispatches on the variant).
handle(t) ==
  \/ handle_auth(t)
  \/ handle_auth_full_remove(t)
  \/ handle_auth_full_send(t)
  \/ handle_auth_ok(t)
  \/ assert_auth(t)
  \/ assert_auth_bail(t)
  \/ assert_auth_get_mut(t)
  \/ handle_data(t)
  \/ handle_ping(t)
  \/ handle_disconnect(t)
  \/ handle_key_exchange(t)
  \/ handle_key_exchange_insert(t)
  \/ handle_key_exchange_get_mut(t)
  \/ handle_key_exchange_send(t)

\* ---------------------------------- Server::cleanup_inactive_clients
hdlUnch == UNCHANGED <<max_clients, tun, running, nrecv, tasks, rx, lastHandled,
                      cliVars, wire>>

\* The sessions the sweeper's scan collects.
expired_clients(m) == {a \in DOMAIN m : is_expired(m[a])}

\* The sweeper wakes and collects clients_to_remove.
cleanup_scan ==
  /\ swPc = "sleep" /\ swWake = 0
  /\ swTodo' = expired_clients(clients)
  /\ swPc' = "loop"
  /\ swIdle' = {a \in Addr : lastHandled[a] - Now > client_timeout}
  /\ UNCHANGED <<clients, sent, swAddr, swEvicted, swWake>>
  /\ hdlUnch

\* The for loop's head and clients.remove(&addr).
cleanup_remove ==
  /\ swPc = "loop" /\ swTodo # {}
  /\ \E a \in swTodo :
       /\ clients' = Remove(clients, a)
       /\ swEvicted' = IF ContainsKey(clients, a) THEN {clients[a]} ELSE {}
       /\ swAddr' = a
       /\ swTodo' = swTodo \ {a}
  /\ swPc' = "send"
  /\ UNCHANGED <<sent, swWake, swIdle>>
  /\ hdlUnch

\* send_packet(Disconnect { reason: "Stale connection" }, addr).
cleanup_send ==
  /\ swPc = "send"
  /\ send_packet(SDisconnect("Stale connection"), swAddr)
  /\ swPc' = "loop"
  /\ UNCHANGED <<clients, swTodo, swAddr, swEvicted, swWake, swIdle>>
  /\ hdlUnch

\* The loop is through: tokio::time::sleep(cleanup_interval).
cleanup_sleep ==
  /\ swPc = "loop" /\ swTodo = {}
  /\ swPc' = "sleep"
  /\ swWake' = cleanup_interval
  /\ UNCHANGED <<clients, sent, swTodo, swAddr, swEvicted, swIdle>>
  /\ hdlUnch

\* Time passes by one tick: every stored instant is one tick older, and the
\* sweeper's sleep has one tick less to go.
Tick ==
  /\ clients' = [a \in DOMAIN clients |->
                  [clients[a] EXCEPT !.last_seen = Older(@)]]
  /\ lastHandled' = [a \in Addr |-> Older(lastHandled[a])]
  /\ tasks' = {IF t.pc = "ke_insert" THEN [t EXCEPT !.born = Older(@)] ELSE t :
                t \in tasks}
  /\ swWake' = IF swWake > 0 THEN swWake - 1 ELSE 0
  /\ UNCHANGED <<max_clients, tun, running, nrecv, sent, swPc, swTodo,
                 swAddr, swEvicted, rx, swIdle, cliVars, wire>>

\* ------------------------------------------------------ the server alone
\* What any sender may put on the wire towards the server.
AnyDatagram ==
  {Datagram(a, TRUE, ZeroKey, NoPkt) : a \in Addr}
    \cup {Encrypt(a, k, p) : a \in Addr, k \in Key, p \in ClientPacket \cup {Junk}}

\* ServerBuilder::build, then Server::run up to its loop.
ServerStarted ==
  /\ tun = << >>
  /\ clients = << >>
  /\ running = TRUE
  /\ nrecv = 0
  /\ tasks = {}
  /\ sent = [a \in Addr |-> << >>]
  /\ swPc = "sleep" /\ swTodo = {} /\ swAddr = ClientAddr /\ swEvicted = {}
  /\ swWake = 0
  /\ rx = "none"
  /\ lastHandled = [a \in Addr |-> AgeCap]
  /\ swIdle = {}

InitServer == max_clients \in MaxClientsChoices /\ ServerStarted

\* Client.connect_timeout, in ticks (one tick is 5 s of the default 10 s).
connect_timeout == 2

\* No client is modelled: the datagrams come from the environment.
NoError == [text |-> "", detail |-> ""]
ClientOff ==
  /\ cpc = "off" /\ credentials = NoCred /\ session_key = ZeroKey
  /\ cerr = NoError /\ crd = 0 /\ wire = EmptyBag /\ ndup = 0
  /\ network = << >> /\ ping_sent = 0 /\ ppc = "off" /\ npings = 0 /\ pongs = 0
  /\ nframes = 0 /\ last_ping_sent = 0 /\ tun_written = 0
  /\ ctimer = connect_timeout /\ cwaited = 0

Init == InitServer /\ ClientOff

vars == <<srvVars, cliVars, wire>>

\* The receive loop takes one of the environment's datagrams.
RecvAny ==
  /\ nrecv < MaxDatagrams
  /\ \E d \in AnyDatagram : Recv(d)
  /\ UNCHANGED <<cliVars, wire>>

Handle == \E t \in tasks : handle(t)

Sweep == cleanup_scan \/ cleanup_remove \/ cleanup_send \/ cleanup_sleep

Next == RecvAny \/ Handle

\* The server fed arbitrary datagrams from every address, its handler tasks
\* interleaved in every way.
Spec == Init /\ [][Next]_vars

\* The receive loop takes one of the environment's datagrams, which arrives
\* when the handlers of the earlier ones are through.
RecvSerial ==
  /\ tasks = {}
  /\ RecvAny

NextSerial == RecvSerial \/ Handle

\* The server fed arbitrary datagrams from every address, one at a time.
SpecSerial == Init /\ [][NextSerial]_vars

\* ------------------------------------------- claims on the server alone
\* C1: every step in which handle_auth rejects an Auth whose credential is not
\* in the accepted set leaves the session table without a session for the
\* sender's address.
C1_FailedAuthRemovesSession ==
  [][\A t \in tasks :
       (/\ t.pkt.type = "Auth"
        /\ t.pkt.cred \notin client_credentials
        /\ handle_auth(t))
         => ~ContainsKey(clients', t.addr)]_vars

\* C2: once all handlers have finished, the session table holds at most
\* max_clients sessions.
C2_AtMostMaxClients ==
  tasks = {} => MapLen(clients) <= max_clients

\* C3: a Pong is sent to an address only after an AuthOk was sent to it.
C3_PongOnlyAfterAuthOk ==
  \A a \in Addr : \A i \in 1 .. Len(sent[a]) :
    sent[a][i].pkt.type = "Pong"
      => \E j \in 1 .. (i - 1) : sent[a][j].pkt.type = "AuthOk"

\* C4: a turn of the receive loop on a datagram whose envelope cannot be
\* decoded leaves the loop running.
C4_MalformedKeepsLoopRunning ==
  [][\A d \in AnyDatagram : (~FromBytesOk(d) /\ Recv(d)) => running']_vars

\* Handler task t has changed the session table: the places a task reaches
\* only through an insert, a remove or a refresh of last_seen.
Effected(t) ==
  t.pc \in {"ke_get_mut", "ke_send", "auth_full_send", "data_get_mut", "ping_send"}

\* C10: while the handler of a datagram has not taken its first step, the
\* handler of a later datagram from the same address has changed nothing in
\* the session table.
C10_SameAddressInReceiveOrder ==
  \A t1 \in tasks : \A t2 \in tasks :
    (t1.addr = t2.addr /\ t1.id < t2.id /\ t1.pc = "start") => ~Effected(t2)

\* C5: a turn of the receive loop on a well-formed datagram that was not sealed
\* with the session key of its source address (with the bootstrap key, where
\* the address has no session) changes no session, sends nothing and spawns
\* no handler.
C5_UndecryptableChangesNothing ==
  [][\A d \in AnyDatagram :
       (/\ FromBytesOk(d)
        /\ d.key # (IF d.src \in DOMAIN clients THEN clients[d.src].key ELSE ZeroKey)
        /\ Recv(d))
         => (clients' = clients /\ sent' = sent /\ tasks' = tasks)]_vars

\* C5 witness: the loop has just dropped a datagram that failed to decrypt
\* under the session key of an address that has a session.
C5_Witness ==
  /\ rx = "Decryption failed"
  /\ ContainsKey(clients, ClientAddr)
  /\ clients[ClientAddr].key # ZeroKey

\* --------------------------------------------- the server and its sweeper
\* What a client at ClientAddr that follows the protocol may send: a
\* KeyExchange under the bootstrap key, anything else under the key of its
\* session.
ClientDatagram ==
  {Encrypt(ClientAddr, ZeroKey, KeyExchange(ZeroKey))}
    \cup {Encrypt(ClientAddr, get_client_key(clients, ClientAddr), p) :
             p \in {Auth(GoodCred), Data, Ping, Disconnect}}

RecvClient ==
  /\ tasks = {}
  /\ nrecv < MaxDatagrams
  /\ \E d \in ClientDatagram : Recv(d)
  /\ UNCHANGED <<cliVars, wire>>

NextSweep == RecvClient \/ Handle \/ Sweep \/ Tick

\* The server, its sweeper task and the clock, fed a client's datagrams one
\* at a time.
SpecSweep == Init /\ [][NextSweep]_vars

\* C8: when a run of the sweeper is through, no address that had been without
\* a handled datagram for more than client_timeout when the run scanned the
\* table, and has had none since, has a session.
C8_IdleSessionEvicted ==
  swPc = "sleep" => swIdle \cap DOMAIN clients = {}

\* C8 witness: a run of the sweeper is through that found ClientAddr idle for
\* more than client_timeout and removed its session.
C8_Witness ==
  /\ swPc = "sleep"
  /\ ClientAddr \in swIdle
  /\ swEvicted # {}
  /\ ~ContainsKey(clients, ClientAddr)

\* C9: the Disconnect the sweeper sends after it removed a session is sealed
\* with the key of the session it removed.
C9_StaleDisconnectUnderEvictedKey ==
  [][cleanup_send =>
       \A c \in swEvicted :
         sent'[swAddr][Len(sent'[swAddr])].key = c.key]_vars

\* ------------------------------------------------- the client's handshake
\* Client::builder ... build: a client that has credentials, before run.
InitClient ==
  /\ cpc = "init" /\ credentials \in Credentials /\ session_key = ZeroKey
  /\ cerr = NoError /\ crd = 0 /\ wire = EmptyBag /\ ndup = 0
  /\ network = << >> /\ ping_sent = 0 /\ ppc = "off" /\ npings = 0 /\ pongs = 0
  /\ nframes = 0 /\ last_ping_sent = 0 /\ tun_written = 0
  /\ ctimer = connect_timeout /\ cwaited = 0

\* An anyhow error of connect: its text, and the server's message it carries.
Err(text, detail) == [text |-> text, detail |-> detail]

\* connect returns Err and run returns it.
Fail(e) ==
  /\ cpc' = "failed" /\ cerr' = e
  /\ UNCHANGED <<session_key, wire>>

\* socket.send_to(packet, server_addr) on the client's socket.
SendToServer(k, p) == wire' = wire (+) SetToBag({Encrypt(ClientAddr, k, p)})

\* What the client's recv_from returns next, and the ServerPacket decrypt
\* reads from it.
NextReply == sent[ClientAddr][crd + 1]
NextPacket == deserialize(ServerPacketVariants, NextReply.tag, NextReply.pkt)

cliUnch == UNCHANGED <<srvVars, credentials, ndup, runVars>>

\* connect: fill_random_bytes(session_key), send KeyExchange(session_key)
\* under the all-zero key.
connect_key_exchange ==
  /\ cpc = "init"
  /\ \E c \in Key :
       /\ session_key' = c
       /\ SendToServer(ZeroKey, KeyExchange(c))
  /\ cpc' = "wait_ke"
  /\ UNCHANGED <<cerr, crd>>
  /\ cliUnch

\* connect, first recv_from returned: decrypt under the all-zero key; on
\* KeyExchange(server_key) XOR it into session_key and send Auth under it.
connect_recv_key_exchange ==
  /\ cpc = "wait_ke" /\ crd < Len(sent[ClientAddr])
  /\ crd' = crd + 1
  /\ IF NextReply.key # ZeroKey
       THEN Fail(Err("Decryption failed", ""))
     ELSE IF NextPacket.type = "KeyExchange"
       THEN /\ session_key' = Xor(session_key, NextPacket.key)
            /\ SendToServer(session_key', Auth(credentials))
            /\ cpc' = "wait_auth"
            /\ UNCHANGED cerr
     ELSE Fail(Err("Failed to establish secure connection", ""))
  /\ cliUnch

\* connect, first recv_from timed out (connect_timeout) with nothing to read.
connect_timeout_key_exchange ==
  /\ cpc = "wait_ke" /\ crd = Len(sent[ClientAddr])
  /\ Fail(Err("Connection handshake timeout", ""))
  /\ UNCHANGED crd
  /\ cliUnch

\* connect, second recv_from returned: decrypt under session_key and match.
connect_recv_auth ==
  /\ cpc = "wait_auth" /\ crd < Len(sent[ClientAddr])
  /\ crd' = crd + 1
  /\ IF NextReply.key # session_key
       THEN Fail(Err("Decryption failed", ""))
     ELSE IF NextPacket.type = "AuthOk"
       THEN cpc' = "running" /\ UNCHANGED <<cerr, session_key, wire>>
     ELSE IF NextPacket.type = "AuthError"
       THEN Fail(Err("Authentication failed", NextPacket.msg))
     ELSE Fail(Err("Unexpected response from server", ""))
  /\ cliUnch

\* connect, second recv_from timed out with nothing to read.
connect_timeout_auth ==
  /\ cpc = "wait_auth" /\ crd = Len(sent[ClientAddr])
  /\ Fail(Err("Connection timeout", ""))
  /\ UNCHANGED crd
  /\ cliUnch

\* connect with the time its waits take left open: a wait may time out
\* whenever there is nothing to read.
connect ==
  /\ \/ connect_key_exchange
     \/ connect_recv_key_exchange
     \/ connect_timeout_key_exchange
     \/ connect_recv_auth
     \/ connect_timeout_auth
  /\ UNCHANGED timerVars

\* The network hands one of the client's datagrams to the server's recv_from.
Deliver ==
  /\ \E d \in BagToSet(wire) : Recv(d) /\ wire' = wire (-) SetToBag({d})
  /\ UNCHANGED cliVars

\* The network hands the server a datagram and keeps a copy to hand it again.
Duplicate ==
  /\ ndup < MaxDup
  /\ \E d \in BagToSet(wire) : Recv(d)
  /\ ndup' = ndup + 1
  /\ UNCHANGED <<cpc, credentials, session_key, cerr, crd, wire, runVars, timerVars>>

InitHandshake == InitServer /\ InitClient

NextClient == connect \/ Deliver \/ Duplicate \/ Handle

\* One client at ClientAddr running its handshake against the server, over a
\* network that may duplicate its datagrams.
SpecClient == InitHandshake /\ [][NextClient]_vars

\* The client has read the server's KeyExchange reply and derived its key.
ClientDerived ==
  crd >= 1 /\ sent[ClientAddr][1].pkt.type = "KeyExchange"

\* How many KeyExchange datagrams from address a the receive loop has
\* dispatched: the handlers still running and those that have replied.
KeyExchangesDispatched(a) ==
  Cardinality({t \in tasks : t.addr = a /\ t.pkt.type = "KeyExchange"})
    + Cardinality({i \in 1 .. Len(sent[a]) : sent[a][i].pkt.type = "KeyExchange"})

\* C6: the client's run has failed with "Authentication failed" exactly when
\* it has read an AuthError the server sent it.
C6_AuthFailedIffAuthError ==
  (cerr.text = "Authentication failed")
    <=> (\E i \in 1 .. crd : sent[ClientAddr][i].pkt.type = "AuthError")

\* C7 as stated: once the client has derived its session key, the key of the
\* server's session for ClientAddr equals it, duplicated datagrams or not.
C7_SessionSymmetry ==
  (ClientDerived /\ ContainsKey(clients, ClientAddr))
    => clients[ClientAddr].key = session_key

\* C7: once the client has derived its session key, and the server has been
\* handed one KeyExchange from ClientAddr and no more, the key of the server's
\* session for ClientAddr equals the client's.
C7_SessionSymmetryOneExchange ==
  (/\ ClientDerived
   /\ ContainsKey(clients, ClientAddr)
   /\ KeyExchangesDispatched(ClientAddr) = 1)
    => clients[ClientAddr].key = session_key

\* C7 witness: the handshake went through on a single KeyExchange and both
\* ends hold the same key, which is not the bootstrap key.
C7_Witness ==
  /\ cpc = "running"
  /\ KeyExchangesDispatched(ClientAddr) = 1
  /\ ContainsKey(clients, ClientAddr)
  /\ clients[ClientAddr].key = session_key
  /\ session_key # ZeroKey

\* ------------------------------------------ the client after the handshake
\* The reader task run spawns: recv_from, from_bytes and decrypt under key; a
\* packet that decrypts goes into the network channel, anything else is
\* skipped without a word.
recv_task ==
  /\ cpc = "running" /\ crd < Len(sent[ClientAddr])
  /\ crd' = crd + 1
  /\ network' = IF NextReply.key = session_key
                   THEN Append(network, NextPacket)
                   ELSE network
  /\ UNCHANGED <<srvVars, cpc, credentials, session_key, cerr, ndup, wire,
                 ping_sent, ppc, npings, pongs, nframes,
                 timerVars, last_ping_sent, tun_written>>

start_ping_early ==
  /\ cpc \in {"wait_ke", "wait_auth", "running"} /\ ppc = "off"
  /\ ppc' = "send"
  /\ UNCHANGED <<srvVars, cpc, credentials, session_key, cerr, crd, ndup, wire,
                 network, ping_sent, npings, pongs, nframes,
                 timerVars, last_ping_sent, tun_written>>

\* start_ping: the channel of capacity 1 and the spawn of the ping task.
start_ping ==
  /\ cpc = "running" /\ ppc = "off"
  /\ ppc' = "send"
  /\ UNCHANGED <<srvVars, cpc, credentials, session_key, cerr, crd, ndup, wire,
                 network, ping_sent, npings, pongs, nframes,
                 timerVars, last_ping_sent, tun_written>>

\* The ping task: encrypt Ping under key and send_to.
ping_send ==
  /\ ppc = "send" /\ npings < MaxPings
  /\ SendToServer(session_key, Ping)
  /\ npings' = npings + 1
  /\ ppc' = "notify"
  /\ UNCHANGED <<srvVars, cpc, credentials, session_key, cerr, crd, ndup,
                 network, ping_sent, pongs, nframes,
                 timerVars, last_ping_sent, tun_written>>

\* The ping task: tx.send(()).await.unwrap() waits while the channel is
\* full and panics once run has dropped the receiver.
ping_notify ==
  /\ ppc = "notify"
  /\ IF cpc = "done"
       THEN ppc' = "panicked" /\ UNCHANGED ping_sent
       ELSE ping_sent = 0 /\ ping_sent' = 1 /\ ppc' = "sleep"
  /\ UNCHANGED <<srvVars, cpc, credentials, session_key, cerr, crd, ndup, wire,
                 network, npings, pongs, nframes,
                 timerVars, last_ping_sent, tun_written>>

\* The ping task: sleep(interval) is over.
ping_sleep ==
  /\ ppc = "sleep"
  /\ ppc' = "send"
  /\ UNCHANGED <<srvVars, cpc, credentials, session_key, cerr, crd, ndup, wire,
                 network, ping_sent, npings, pongs, nframes,
                 timerVars, last_ping_sent, tun_written>>

\* run's loop, the branch of network_rx.recv(): Pong is matched and its
\* latency logged, Disconnect makes run return Ok, the other variants are
\* logged (the server sends no Data).
run_network_rx ==
  /\ cpc = "running" /\ ppc # "off" /\ network # << >>
  /\ network' = Tail(network)
  /\ pongs' = IF Head(network).type = "Pong" THEN pongs + 1 ELSE pongs
  /\ cpc' = IF Head(network).type = "Disconnect" THEN "done" ELSE cpc
  /\ tun_written' = IF Head(network).type = "Data"
                       THEN tun_written + 1
                       ELSE tun_written
  /\ UNCHANGED <<srvVars, credentials, session_key, cerr, crd, ndup, wire,
                 ping_sent, ppc, npings, nframes,
                 timerVars, last_ping_sent>>

\* run's loop, the branch of ping_sent_rx.recv().
run_ping_sent_rx ==
  /\ cpc = "running" /\ ppc # "off" /\ ping_sent > 0
  /\ ping_sent' = ping_sent - 1
  /\ last_ping_sent' = IF ppc = "notify" THEN npings - 1 ELSE npings
  /\ UNCHANGED <<srvVars, cpc, credentials, session_key, cerr, crd, ndup, wire,
                 network, ppc, npings, pongs, nframes,
                 timerVars, tun_written>>

\* run's loop, the branch of serve_tun: a frame read from the TUN is sent as
\* Data under key (what serve_tun returns, Ok or Err, is dropped).
serve_tun ==
  /\ cpc = "running" /\ ppc # "off" /\ nframes < MaxFrames
  /\ SendToServer(session_key, Data)
  /\ nframes' = nframes + 1
  /\ UNCHANGED <<srvVars, cpc, credentials, session_key, cerr, crd, ndup,
                 network, ping_sent, ppc, npings, pongs,
                 timerVars, last_ping_sent, tun_written>>

ping_task == start_ping \/ ping_send \/ ping_notify \/ ping_sleep

run_loop == serve_tun \/ run_network_rx \/ run_ping_sent_rx

\* connect when every reply arrives within connect_timeout.
connect_in_time ==
  /\ connect_key_exchange \/ connect_recv_key_exchange \/ connect_recv_auth
  /\ UNCHANGED timerVars

\* tests/connect.rs, test_client_server_connection: with_max_clients(10) and a
\* client whose credential the server accepts.
test_max_clients == 10

InitSession ==
  /\ max_clients = test_max_clients
  /\ ServerStarted
  /\ InitClient
  /\ credentials \in client_credentials

NextSession ==
  connect_in_time \/ Deliver \/ Handle \/ recv_task \/ ping_task \/ run_loop

\* One client against the server of the connection test, over a network that
\* delivers every datagram once and a sweeper that finds nothing stale.
SpecSession == InitSession /\ [][NextSession]_vars

\* run's loop while the TUN is idle: serve_tun's read does not return.
run_loop_idle_tun == run_network_rx \/ run_ping_sent_rx

NextIdleTun ==
  \/ connect_in_time \/ Deliver \/ Handle
  \/ recv_task \/ ping_task \/ run_loop_idle_tun

\* The same client and server with an idle TUN, every task scheduled again
\* and again and every datagram delivered.
SpecSessionFair ==
  /\ InitSession /\ [][NextIdleTun]_vars
  /\ WF_vars(connect_in_time) /\ WF_vars(Deliver) /\ WF_vars(Handle)
  /\ WF_vars(recv_task) /\ WF_vars(ping_task) /\ WF_vars(run_loop_idle_tun)

\* ------------------------------------- the handler table, entry by entry
\* C11: a turn of the receive loop on a KeyExchange datagram sealed with the
\* bootstrap key, from an address that has a session, spawns its handler.
C11_KeyExchangeAlwaysPermitted ==
  [][\A a \in Addr : \A c \in Key :
       (ContainsKey(clients, a) /\ Recv(Encrypt(a, ZeroKey, KeyExchange(c))))
         => \E t \in tasks' \ tasks : t.addr = a /\ t.pkt.type = "KeyExchange"]_vars

\* C12: a step of the handler of an Auth from an address that has no session
\* creates no session, and what it sends is AuthError("Invalid credentials").
C12_AuthWithoutSessionIsRefused ==
  [][\A t \in tasks :
       (t.pkt.type = "Auth" /\ ~ContainsKey(clients, t.addr) /\ handle(t))
         => /\ ~ContainsKey(clients', t.addr)
            /\ sent' # sent =>
                 sent'[t.addr][Len(sent'[t.addr])].pkt
                   = AuthError("Invalid credentials")]_vars

\* C13: a step of the handler of a Data or Ping from an address that has no
\* session sends nothing and leaves the session table as it is.
C13_NoSessionSilentDrop ==
  [][\A t \in tasks :
       (t.pkt.type \in {"Data", "Ping"} /\ ~ContainsKey(clients, t.addr) /\ handle(t))
         => (sent' = sent /\ clients' = clients)]_vars

\* C20: when the handler of an Auth from an address that has a session
\* returns and the session is still there, the session's last_seen is the
\* handling instant.  Only handlers whose steps all fell within one instant
\* are looked at (no Tick since the handler's previous step), so that the
\* handling instant is the instant of the returning step.
C20_AuthRefreshesLastSeen ==
  [][\A t \in tasks :
       (/\ t.pkt.type = "Auth"
        /\ ContainsKey(clients, t.addr)
        /\ t.pc # "start" => lastHandled[t.addr] = Now
        /\ handle(t)
        /\ t.id \notin {u.id : u \in tasks'}
        /\ ContainsKey(clients', t.addr))
         => clients'[t.addr].last_seen = Now]_vars

\* C18: the handler of a Data from an address that has a session writes the
\* payload to the TUN device, once, and sends no reply: the handler's last
\* step (the one after assert_auth) leaves one more frame on the TUN and
\* sends nothing.
C18_DataForwardedToTun ==
  [][\A t \in tasks :
       (/\ t.pkt.type = "Data"
        /\ t.pc = "data_get_mut"
        /\ handle(t))
         => (Len(tun') = Len(tun) + 1 /\ sent' = sent)]_vars

\* ------------------------------------------- two clients, no clock
\* What clients at the two addresses that follow the protocol may send.
PeerDatagram ==
  UNION {{Encrypt(a, ZeroKey, KeyExchange(ZeroKey))}
           \cup {Encrypt(a, get_client_key(clients, a), p) :
                    p \in {Auth(GoodCred), Data, Ping, Disconnect}} : a \in Addr}

RecvPeer ==
  /\ tasks = {}
  /\ nrecv < MaxDatagrams + 1
  /\ \E d \in PeerDatagram : Recv(d)
  /\ UNCHANGED <<cliVars, wire>>

NextPeers == RecvPeer \/ Handle

\* The server fed the datagrams of two clients, one at a time.
SpecPeers == Init /\ [][NextPeers]_vars

\* C14: the handler of a Disconnect sends nothing and leaves the table
\* without the sender's session and otherwise as it was; run on the table a
\* Disconnect from the same address has just left (the sender has no
\* session), it leaves the table as it is.
C14_DisconnectIdempotent ==
  [][\A t \in tasks :
       (t.pkt.type = "Disconnect" /\ handle(t))
         => /\ sent' = sent
            /\ clients' = [x \in DOMAIN clients \ {t.addr} |-> clients[x]]
            /\ ~ContainsKey(clients, t.addr) => clients' = clients]_vars

\* KeyExchange, Disconnect, Disconnect from ClientAddr: the first Disconnect
\* has removed the session and the second one is with its handler.
C14_Witness ==
  /\ nrecv = 3
  /\ \E t \in tasks :
       t.addr = ClientAddr /\ t.pkt.type = "Disconnect" /\ t.pc = "start"
  /\ ~ContainsKey(clients, ClientAddr)
  /\ Len(sent[ClientAddr]) = 1
  /\ sent[ClientAddr][1].pkt.type = "KeyExchange"
  /\ lastHandled[PeerAddr] = AgeCap

\* C15: every session of the table is stored under its own addr, and no two
\* sessions have the same addr.
C15_OneSessionPerAddress ==
  /\ \A a \in DOMAIN clients : clients[a].addr = a
  /\ \A a \in Addr :
       Cardinality({x \in DOMAIN clients : clients[x].addr = a}) <= 1

\* A session set up again after the sweeper evicted the address's first one.
C15_Witness ==
  /\ ContainsKey(clients, ClientAddr)
  /\ \E i \in 1..Len(sent[ClientAddr]) :
       sent[ClientAddr][i].pkt = SDisconnect("Stale connection")

\* ----------------------------------------------------- the wire tags
\* C16 as stated: every packet on the wire carries the tag of the table
\* Auth 0, Data 1, Ping 2, Disconnect 3, KeyExchange 4 (client) and AuthOk 0,
\* AuthError 1, Data 2, Pong 3, Error 4, Disconnect 5, KeyExchange 6 (server),
\* which is also what serialization gives each variant.
C16_WireTags ==
  LET client == [Auth |-> 0, Data |-> 1, Ping |-> 2, Disconnect |-> 3,
                 KeyExchange |-> 4]
      server == [AuthOk |-> 0, AuthError |-> 1, Data |-> 2, Pong |-> 3,
                 Error |-> 4, Disconnect |-> 5, KeyExchange |-> 6]
  IN /\ \A v \in DOMAIN client : variant_index(ClientPacketVariants, v) = client[v]
     /\ \A v \in DOMAIN server : variant_index(ServerPacketVariants, v) = server[v]
     /\ \A d \in BagToSet(wire) : d.tag = client[d.pkt.type]
     /\ \A i \in 1 .. Len(sent[ClientAddr]) :
          sent[ClientAddr][i].tag = server[sent[ClientAddr][i].pkt.type]

\* C16 with the tags of the declarations: Auth 0, Data 1, Ping 2,
\* Disconnect 3 (client) and AuthOk 0, AuthError 1, Data 2, Error 3, Pong 4,
\* Disconnect 5 (server), for every declared variant and every packet of a
\* declared variant on the wire.
C16_WireTagsAsDeclared ==
  LET client == [Auth |-> 0, Data |-> 1, Ping |-> 2, Disconnect |-> 3]
      server == [AuthOk |-> 0, AuthError |-> 1, Data |-> 2, Error |-> 3,
                 Pong |-> 4, Disconnect |-> 5]
  IN /\ \A v \in DOMAIN client : variant_index(ClientPacketVariants, v) = client[v]
     /\ \A v \in DOMAIN server : variant_index(ServerPacketVariants, v) = server[v]
     /\ \A d \in BagToSet(wire) :
          d.pkt.type \in DOMAIN client => d.tag = client[d.pkt.type]
     /\ \A i \in 1 .. Len(sent[ClientAddr]) :
          sent[ClientAddr][i].pkt.type \in DOMAIN server
            => sent[ClientAddr][i].tag = server[sent[ClientAddr][i].pkt.type]

\* A Ping is on its way to the server while a Pong is among the datagrams
\* the server has sent.
C16_Witness ==
  /\ \E d \in BagToSet(wire) : d.pkt.type = "Ping" /\ d.tag = 2
  /\ \E i \in 1 .. Len(sent[ClientAddr]) :
       sent[ClientAddr][i].pkt.type = "Pong" /\ sent[ClientAddr][i].tag = 4

\* ------------------------------------------------ an established session
\* C17: the client of the connection test gets through the handshake and from
\* some point on its run is in its loop for good, without an error, and the
\* session table has exactly one entry, the client's.
C17_HandshakeCompletes ==
  <>[](/\ cpc = "running" /\ cerr = NoError
       /\ \E i \in 1 .. crd : sent[ClientAddr][i].pkt = AuthOk
       /\ DOMAIN clients = {ClientAddr})

\* The client has read AuthOk and is in its loop; the table has its session.
C17_Witness ==
  /\ max_clients = test_max_clients
  /\ cpc = "running" /\ ppc # "off"
  /\ sent[ClientAddr][crd].pkt = AuthOk
  /\ DOMAIN clients = {ClientAddr}

\* The Pongs among the datagrams the server has sent to the client.
PongsSent ==
  {i \in 1 .. Len(sent[ClientAddr]) : sent[ClientAddr][i].pkt.type = "Pong"}

\* C19: the server never has sent more Pongs than the client Pings, every
\* Pong is sealed with the session key, and the n-th Ping sent leads to the
\* n-th Pong sent and to the n-th Pong matched by the client's loop.
C19_EveryPingAnswered ==
  /\ [](/\ Cardinality(PongsSent) <= npings
        /\ pongs <= Cardinality(PongsSent)
        /\ \A i \in PongsSent :
             /\ ContainsKey(clients, ClientAddr)
             /\ sent[ClientAddr][i].key = clients[ClientAddr].key
             /\ sent[ClientAddr][i].key = session_key)
  /\ \A n \in 1 .. MaxPings :
       (npings >= n) ~> (Cardinality(PongsSent) >= n /\ pongs >= n)

\* Every Ping of the run has been answered and every Pong matched.
C19_Witness ==
  /\ npings = MaxPings
  /\ Cardinality(PongsSent) = MaxPings
  /\ pongs = MaxPings
  /\ wire = EmptyBag /\ tasks = {}

\* --------------------------------- handlers, sweeper and clock in parallel
\* The receive loop takes the client's next datagram while handlers of its
\* earlier ones are still running.
RecvClientEarly ==
  /\ nrecv < MaxDatagrams
  /\ \E d \in ClientDatagram : Recv(d)
  /\ UNCHANGED <<cliVars, wire>>

NextRace == RecvClientEarly \/ Handle \/ Sweep \/ Tick

\* The server, its sweeper task and the clock, with the handler tasks of one
\* client's datagrams running side by side.
SpecRace == Init /\ [][NextRace]_vars

\* C21: no step of a handler task moves the last_seen stored for an address
\* back in time (stored instants are ages, so none gets older), as long as
\* the address has a session before and after the step.
C21_LastSeenMonotone ==
  [][\A t \in tasks :
       handle(t) =>
         \A a \in DOMAIN clients \cap DOMAIN clients' :
           clients'[a].last_seen <= clients[a].last_seen]_vars


\* ------------------------------------------ the time connect's waits take
arm_timeout_once(left) == left

\* tokio::time::timeout(self.connect_timeout, self.socket.recv_from(..)): each
\* of the two waits is given a deadline of its own, a whole connect_timeout.
arm_timeout(left) == connect_timeout

Waiting == cpc \in {"wait_ke", "wait_auth"}

\* connect on the client's clock: every recv_from is armed when it is first
\* polled, it returns a datagram whenever one is there, and the timeout arm
\* is taken only once the deadline has passed (a recv_from that returns an
\* error takes the same arm; the sockets modelled here return none).
connect_timed ==
  \/ /\ connect_key_exchange
     /\ ctimer' = arm_timeout(ctimer) /\ cwaited' = 0
  \/ /\ connect_recv_key_exchange
     /\ IF cpc' = "wait_auth"
          THEN ctimer' = arm_timeout(ctimer) /\ cwaited' = 0
          ELSE UNCHANGED timerVars
  \/ /\ connect_recv_auth
     /\ UNCHANGED timerVars
  \/ /\ ctimer = 0
     /\ connect_timeout_key_exchange \/ connect_timeout_auth
     /\ UNCHANGED timerVars

\* One tick of the client's clock passes while connect waits in recv_from.
Elapse ==
  /\ Waiting /\ ctimer > 0
  /\ ctimer' = ctimer - 1
  /\ cwaited' = cwaited + 1
  /\ UNCHANGED <<srvVars, cpc, credentials, session_key, cerr, crd, ndup, wire,
                 runVars>>

NextTimeout == connect_timed \/ Elapse \/ Deliver \/ Handle

\* The handshake on the client's clock.  The clock advances and the client's
\* task is scheduled; nothing is assumed of the network or of the server.
SpecTimeout ==
  /\ InitHandshake
  /\ [][NextTimeout]_vars
  /\ WF_vars(Elapse)
  /\ WF_vars(connect_timed)

TimeoutErrors == {"Connection handshake timeout", "Connection timeout"}

\* C22: neither of connect's two waits lasts longer than connect_timeout, a
\* wait that ends in a timeout error has lasted a whole connect_timeout of its
\* own, a run that no datagram reached fails with a timeout error, and
\* connect always leaves its waits.
C22_WaitsEndInTime ==
  /\ [](/\ Waiting => cwaited <= connect_timeout
        /\ (cpc = "failed" /\ cerr.text \in TimeoutErrors)
             => cwaited = connect_timeout
        /\ (cpc = "failed" /\ crd = 0 /\ Len(sent[ClientAddr]) = 0)
             => cerr.text = "Connection handshake timeout")
  /\ <>(cpc \in {"failed", "running"})

\* The second wait timed out after the first one had itself waited.
C22_Witness ==
  /\ cpc = "failed" /\ cerr.text = "Connection timeout"
  /\ crd = 1 /\ cwaited = connect_timeout


\* C23: AuthError("Server is full") is sent to a client only when max_clients
\* sessions of other addresses exist, so that max_clients clients with
\* accepted credentials, one after another, are all given AuthOk.
C23_FullOnlyWhenOthersFill ==
  [][\A t \in tasks :
       (t.pc = "auth_full_send" /\ handle(t))
         => Cardinality(DOMAIN clients \ {t.addr}) >= max_clients]_vars


\* C24: the sweeper removes a session only if that session is expired at the
\* moment of the removal; a refresh or a replacement between its scan and its
\* remove keeps the session in the table.
C24_RemovedOnlyIfExpiredThen ==
  [][cleanup_remove =>
       \A a \in DOMAIN clients \ DOMAIN clients' : is_expired(clients[a])]_vars

\* C25: assert_auth does not panic: the session contains_key has found is
\* still in the table when get_mut(..).unwrap() looks it up.
C25_AssertAuthFindsSession ==
  [][\A t \in tasks :
       (t.pc = "aa_get_mut" /\ handle(t)) => ContainsKey(clients, t.addr)]_vars

\* C26: the key of a session record does not change from its insertion to
\* its removal or replacement: the key stored for an address changes only in
\* a step that inserts a record for it.
C26_KeyFixedPerRecord ==
  [][\A a \in DOMAIN clients \cap DOMAIN clients' :
       clients'[a].key # clients[a].key
         => \E t \in tasks : t.addr = a /\ handle_key_exchange_insert(t)]_vars


\* C28: when run's loop takes the Pong that answers a Ping, last_ping_sent
\* already holds the instant taken for that Ping (the n-th Pong answers the
\* n-th Ping), so the latency is not measured against an earlier Ping.
C28_PongAfterPingInstant ==
  [][(run_network_rx /\ Head(network).type = "Pong")
       => last_ping_sent >= pongs + 1]_vars


\* --------------------------------------------- the client against any peer
\* What a datagram that reaches the client's socket may hold.
PeerReplies ==
  {SKeyExchange(s) : s \in Key}
    \cup {AuthOk, AuthError("Server is full"), SData, Pong,
          SDisconnect("Stale connection")}

\* A datagram reaches the client's socket, sealed with the key the client
\* holds or with the all-zero key: recv_from takes the datagrams of any sender.
Arrive ==
  /\ Len(sent[ClientAddr]) < MaxDatagrams + 1
  /\ \E k \in {ZeroKey, session_key}, p \in PeerReplies :
       sent' = SendTo(sent, ClientAddr, k, p)
  /\ UNCHANGED <<max_clients, tun, clients, running, nrecv, tasks,
                 swPc, swTodo, swAddr, swEvicted, swWake, rx, lastHandled,
                 swIdle, cliVars, wire>>

NextPumps == connect \/ Arrive \/ recv_task \/ ping_task \/ run_loop

\* Client::run from connect to its loop, with a TUN that has frames to read,
\* against whatever arrives at its socket.
SpecPumps == InitSession /\ [][NextPumps]_vars

\* The datagrams connect and the reader task have taken from the socket.
Taken == 1..crd
TakenPacket(i) ==
  deserialize(ServerPacketVariants, sent[ClientAddr][i].tag, sent[ClientAddr][i].pkt)

\* The first datagram taken was a KeyExchange under the all-zero key.
KeyExchangeTaken ==
  /\ crd >= 1
  /\ sent[ClientAddr][1].key = ZeroKey
  /\ TakenPacket(1).type = "KeyExchange"

\* An AuthOk under the session key is among the datagrams taken.
AuthOkTaken ==
  \E i \in Taken :
    /\ sent[ClientAddr][i].key = session_key
    /\ TakenPacket(i).type = "AuthOk"

\* This step puts a client packet of the given type on the wire.
Sends(type) ==
  \E d \in BagToSet(wire') :
    /\ CopiesIn(d, wire') > CopiesIn(d, wire)
    /\ d.pkt.type = type

\* C27: the handshake comes strictly before the pumps: the client sends Auth
\* only in reply to the KeyExchange it has received, and it sends no Data and
\* no Ping and writes nothing to its TUN before it has received AuthOk.
C27_HandshakeBeforePumps ==
  [][/\ Sends("Auth") => KeyExchangeTaken'
     /\ (Sends("Data") \/ Sends("Ping")) => AuthOkTaken
     /\ tun_written' # tun_written => AuthOkTaken]_vars

\* After the handshake every pump has moved: a Ping and a frame were sent and
\* a frame was written to the TUN.
C27_Witness ==
  /\ KeyExchangeTaken /\ AuthOkTaken
  /\ npings > 0 /\ nframes > 0 /\ tun_written > 0

====
